---- MODULE Spec2Model ----
(***************************************************************************)
(* Client-side state choreography of the content-pipeline dashboard:       *)
(* api.ts (token storage, apiFetch and the request builders), AuthModal /  *)
(* App (login), ReviewPage (load, chat, save, approve, reject) and         *)
(* IdeasTab (filters, approve, dismiss).                                   *)
(*                                                                         *)
(* Every async handler is split at its awaits: the part up to the first    *)
(* await is one action, each continuation after an await is one action.    *)
(* The remote service is the environment: it answers a request in flight   *)
(* with an OK response, a non-OK response, or the connection fails.        *)
(*                                                                         *)
(* Text is a sequence of one-character strings so that String.trim() and   *)
(* the message templates are computed, not assumed.                        *)
(***************************************************************************)
EXTENDS Integers, Sequences, FiniteSets, TLC

\* ------------------------------------------------------------------ bounds
MaxStrLen == 2
MaxSends == 2
MaxSaves == 2

\* ------------------------------------------------------------ plain values
None == "none"       \* null / undefined
NoError == <<>>      \* no error text
NoReq == {}          \* no request in flight
NoBody == [empty |-> TRUE]

Chars == {" ", "a"}

RECURSIVE StringsUpTo(_)
StringsUpTo(n) ==
  IF n = 0 THEN {<<>>}
  ELSE LET shorter == StringsUpTo(n - 1)
       IN shorter \cup {Append(s, c) : s \in {t \in shorter : Len(t) = n - 1}, c \in Chars}

Strings == StringsUpTo(MaxStrLen)

\* String.prototype.trim(): drop leading and trailing white space
RECURSIVE TrimStart(_)
TrimStart(s) ==
  IF s = <<>> THEN <<>>
  ELSE IF Head(s) = " " THEN TrimStart(Tail(s)) ELSE s

RECURSIVE TrimEnd(_)
TrimEnd(s) ==
  IF s = <<>> THEN <<>>
  ELSE IF s[Len(s)] = " " THEN TrimEnd(SubSeq(s, 1, Len(s) - 1)) ELSE s

Trim(s) == TrimEnd(TrimStart(s))

IsPrefix(s, t) == Len(s) <= Len(t) /\ SubSeq(t, 1, Len(s)) = s

\* --------------------------------------------------------------- lib/api.ts
NoToken == <<>>      \* nothing stored (getItem returns null)

\* the tokens AuthModal can store: trimmed, non-blank text
Tokens == {t \in Strings : t # <<>> /\ Trim(t) = t}

\* the token of the session in which a page is opened
SessionToken == <<"a">>

\* what the remote end can do with a request: answer OK, answer non-OK, or
\* the connection fails (fetch rejects)
Responses ==
  {[kind |-> "ok", status |-> "200", text |-> "{...}"],
   [kind |-> "http", status |-> "401", text |-> "unauthorized"],
   [kind |-> "http", status |-> "500", text |-> "internal error"],
   [kind |-> "neterr", status |-> None, text |-> None]}

ErrNoToken == <<"No auth token">>
ErrNetwork == <<"Failed to fetch">>
ErrApi(status, text) == <<"API ", status, ": ", text>>

\* getToken(): the stored token, null when nothing is stored
getToken(storage) == storage

\* !!getToken(): null and the empty string are both falsy
hasToken(storage) == getToken(storage) # NoToken

\* apiFetch up to its await: throws without sending when no token is stored,
\* else sends the request with the bearer header
apiFetchThrowsNoToken(storage) == getToken(storage) = NoToken

apiRequest(storage, path, body) ==
  [path |-> path, auth |-> <<"Bearer ">> \o getToken(storage), body |-> body]

apiFetchThrowsOnlyOnNetwork(res) == res.kind = "neterr"

\* apiFetch after its await: a non-OK response and a failed connection are
\* thrown as errors, an OK response is returned as data
apiFetchThrows(res) == res.kind # "ok"

apiFetchError(res) ==
  IF res.kind = "http" THEN ErrApi(res.status, res.text) ELSE ErrNetwork

\* ------------------------------------------------------------------- state
VARIABLES
  token,          \* localStorage 'pipeline_token'
  authed,         \* App.authed
  page,           \* route shown: "review" or "content"
  loading,        \* ReviewPage.loading
  error,          \* ReviewPage.error
  content,        \* ReviewPage.content
  messages,       \* ReviewPage.messages
  revisions,      \* ReviewPage.revisions (number of revisions listed)
  srvRevisions,   \* revisions stored by the service for this content
  loadReq,        \* requests of the load effect in flight
  chatInput,      \* ReviewPage.chatInput
  chatSending,    \* ReviewPage.chatSending
  chatPc,         \* position of handleSendChat
  chatReq,        \* request of handleSendChat in flight
  chatLog,        \* history: one entry per call of handleSendChat
  saving,         \* ReviewPage.saving
  saveMessage,    \* ReviewPage.saveMessage
  savePc,         \* position of handleSave
  saveReq,        \* request of handleSave in flight
  saveResult,     \* result of createRevision held by handleSave
  saveTimers,     \* pending auto-dismiss timers of handleSave
  saveLog,        \* history: one entry per call of handleSave
  approving,      \* ReviewPage.approving
  approveReq,     \* request of handleApprove in flight
  showRejectModal,\* ReviewPage.showRejectModal
  rejectStage,    \* ReviewPage.rejectStage
  rejectFeedback, \* ReviewPage.rejectFeedback
  rejecting,      \* ReviewPage.rejecting
  rejectReq,      \* request of handleReject in flight
  settled,        \* history: the handler whose request settled last, and how
  srvIdeas,       \* the ideas stored by the service, by id
  ideas,          \* IdeasTab.ideas
  ideasLoading,   \* IdeasTab.loading
  ideasError,     \* IdeasTab.error
  statusFilter,   \* IdeasTab.statusFilter
  wtFilter,       \* IdeasTab.wtFilter
  actionPending,  \* IdeasTab.actionPending
  ideasLoadReq,   \* request of IdeasTab.load in flight
  ideaOps,        \* calls of handleApprove / handleDismiss waiting at their await
  opCount,        \* number of approve / dismiss calls started
  filterChanges,  \* number of filter changes made
  opLog,          \* history: one entry per approve / dismiss request sent
  modalToken,     \* AuthModal.token
  modalError,     \* AuthModal.error
  modalLoading,   \* AuthModal.loading
  authReq,        \* validation request of AuthModal in flight
  sitesLoading,   \* useSiteProvider.loading
  sitesError,     \* useSiteProvider.error
  sitesReq,       \* fetchSites request of useSiteProvider in flight
  submits,        \* number of submissions of the AuthModal form
  onAuthCalls,    \* history: number of calls of the onAuth callback
  validation,     \* history: how the last validation request settled
  apiReq,         \* requests sent by apiFetch and not yet settled
  apiResult,      \* what the last call of apiFetch threw or returned
  apiCalls,       \* number of calls of apiFetch
  selectedSite,   \* site context: the site picked in the layout header
  stageFilter,    \* ContentListPage: the 'stage' search parameter
  listContent,    \* list page: content (the response it was set from)
  listLoading,    \* list page: loading
  listError,      \* list page: error
  listReqs,       \* list page: fetchContent requests in flight
  listIssued,     \* history: number of fetchContent requests issued
  listResults,    \* history: how each issued request settled
  listDone,       \* history: the request that settled last
  listOverlap,    \* history: a request was issued while another was in flight
  srvStage,       \* the stage the service holds for the content item
  knownStage,     \* item.stage as the list or detail page fetched it
  contentStage    \* ReviewPage: content.stage

vars == <<token, authed, page, loading, error, content, messages, revisions,
          srvRevisions, loadReq, chatInput, chatSending, chatPc, chatReq,
          chatLog, saving, saveMessage, savePc, saveReq, saveResult,
          saveTimers, saveLog, approving, approveReq, showRejectModal,
          rejectStage, rejectFeedback, rejecting, rejectReq, settled,
          srvIdeas, ideas, ideasLoading, ideasError, statusFilter, wtFilter,
          actionPending, ideasLoadReq, ideaOps, opCount, filterChanges,
          opLog, modalToken, modalError, modalLoading, authReq, sitesLoading,
          sitesError, sitesReq, submits, onAuthCalls, validation, apiReq,
          apiResult, apiCalls, selectedSite, stageFilter, listContent,
          listLoading, listError, listReqs, listIssued, listResults,
          listDone, listOverlap, srvStage, knownStage, contentStage>>

saveVars == <<saving, saveMessage, savePc, saveReq, saveResult, saveTimers, saveLog>>
approveVars == <<approving, approveReq>>
rejectVars == <<showRejectModal, rejectStage, rejectFeedback, rejecting, rejectReq>>

ideasVars == <<srvIdeas, ideas, ideasLoading, ideasError, statusFilter, wtFilter,
               actionPending, ideasLoadReq, ideaOps, opCount, filterChanges, opLog>>

modalVars == <<modalToken, modalError, modalLoading>>
sitesVars == <<sitesLoading, sitesError, sitesReq>>
authHistory == <<submits, onAuthCalls, validation>>
apiVars == <<apiReq, apiResult, apiCalls>>
listVars == <<selectedSite, stageFilter, listContent, listLoading, listError,
              listReqs, listIssued, listResults, listDone, listOverlap>>

navVars == <<srvStage, knownStage, contentStage>>

\* the content item waits for review; no page has fetched it yet
NavUnvisited ==
  /\ srvStage = "review"
  /\ knownStage = None
  /\ contentStage = None

\* useState([]) of a list page: nothing fetched yet
NoContent == [n |-> 0, params |-> [site_id |-> None, stage |-> None, limit |-> 0]]

\* no list page is mounted
ListUnmounted ==
  /\ selectedSite = "s1"
  /\ stageFilter = ""
  /\ listContent = NoContent
  /\ listLoading = TRUE
  /\ listError = NoError
  /\ listReqs = NoReq
  /\ listIssued = 0
  /\ listResults = <<>>
  /\ listDone = 0
  /\ listOverlap = FALSE

NoValidation == [n |-> 0, kind |-> None, status |-> None, auth |-> <<>>]
NoResponse == [kind |-> None, status |-> None, text |-> None]
NoApiResult == [threw |-> FALSE, message |-> <<>>, res |-> NoResponse]

\* a freshly mounted AuthModal
ModalFresh(t, e, l) == t = <<>> /\ e = <<>> /\ l = FALSE

\* the app has been opened with a stored token and its sites are loaded
AppLoggedIn ==
  /\ ModalFresh(modalToken, modalError, modalLoading)
  /\ authReq = NoReq
  /\ sitesLoading = FALSE
  /\ sitesError = NoError
  /\ sitesReq = NoReq
  /\ submits = 0
  /\ onAuthCalls = 0
  /\ validation = NoValidation
  /\ apiReq = NoReq
  /\ apiResult = NoApiResult
  /\ apiCalls = 0

AppFrame ==
  /\ UNCHANGED modalVars
  /\ UNCHANGED sitesVars
  /\ UNCHANGED authHistory
  /\ UNCHANGED authReq
  /\ UNCHANGED apiVars

NoSaveMessage == [type |-> None, text |-> <<>>]
NoSaveResult == [concerns |-> <<>>, diff_summary |-> None]
NothingSettled == [handler |-> None, kind |-> None]

loadVars == <<loading, error, content, loadReq>>
chatVars == <<chatInput, chatSending, chatPc, chatReq, chatLog>>

\* messages the service holds for the content when the page is opened
StoredMessages ==
  {<<>>,
   <<[id |-> "srv", role |-> "human", message |-> <<"a">>],
     [id |-> "srv", role |-> "agent", message |-> <<"reply">>]>>}

\* ------------------------------------------------------------ IdeasTab data
NumIdeas == 2
MaxOps == 3
MaxFilterChanges == 1

IdeaIds == 1..NumIdeas
NoIdea == 0
WatchTopics == {"w1", "w2"}
IdeaStatuses == {"proposed", "approved", "dismissed", "converted"}

\* the ideas the scans stored for the site: all proposed, spread over the
\* watch topics
StoredIdeas ==
  [i \in IdeaIds |->
     [id |-> i, status |-> "proposed",
      watch_topic_id |-> IF i % 2 = 1 THEN "w1" ELSE "w2",
      dismissed_reason |-> None]]

IdeasUnmounted ==
  /\ srvIdeas = StoredIdeas
  /\ ideas = <<>>
  /\ ideasLoading = TRUE
  /\ ideasError = NoError
  /\ statusFilter = ""
  /\ wtFilter = ""
  /\ actionPending = NoIdea
  /\ ideasLoadReq = NoReq
  /\ ideaOps = {}
  /\ opCount = 0
  /\ filterChanges = 0
  /\ opLog = <<>>

\* --------------------------------------------------- ReviewPage: load effect
ReviewFresh ==
  /\ loading = TRUE
  /\ error = NoError
  /\ content = None
  /\ messages = <<>>
  /\ revisions = 0
  /\ srvRevisions = 0
  /\ chatInput = <<>>
  /\ chatSending = FALSE
  /\ chatPc = "idle"
  /\ chatReq = NoReq
  /\ chatLog = <<>>
  /\ saving = FALSE
  /\ saveMessage = NoSaveMessage
  /\ savePc = "idle"
  /\ saveReq = NoReq
  /\ saveResult = NoSaveResult
  /\ saveTimers = 0
  /\ saveLog = <<>>
  /\ approving = FALSE
  /\ approveReq = NoReq
  /\ showRejectModal = FALSE
  /\ rejectStage = "draft"
  /\ rejectFeedback = <<>>
  /\ rejecting = FALSE
  /\ rejectReq = NoReq
  /\ settled = NothingSettled

\* the review page of a content item has just been opened: its load effect
\* has sent its requests
InitReview ==
  /\ token = SessionToken
  /\ authed = TRUE
  /\ page = "review"
  /\ ReviewFresh
  /\ loadReq = {apiRequest(token, "GET /api/content/:id", NoBody)}
  /\ IdeasUnmounted
  /\ AppLoggedIn
  /\ ListUnmounted
  /\ NavUnvisited

\* the three fetches of the load effect settle
LoadSettle ==
  /\ loadReq # NoReq
  /\ \E res \in Responses, msgs \in StoredMessages :
       /\ IF apiFetchThrows(res)
            THEN /\ error' = apiFetchError(res)
                 /\ UNCHANGED <<content, contentStage, messages, revisions>>
            ELSE /\ content' = "c0"
                 /\ contentStage' = srvStage
                 /\ messages' = msgs
                 /\ revisions' = srvRevisions
                 /\ UNCHANGED error
       /\ loading' = FALSE
       /\ loadReq' = NoReq
  /\ UNCHANGED <<token, authed, page, srvRevisions, settled>>
  /\ UNCHANGED chatVars
  /\ UNCHANGED saveVars
  /\ UNCHANGED approveVars
  /\ UNCHANGED rejectVars
  /\ UNCHANGED ideasVars
  /\ AppFrame
  /\ UNCHANGED listVars
  /\ UNCHANGED <<srvStage, knownStage>>

\* the page body (editor, action bar, sidebar) is rendered
Rendered == authed /\ page = "review" /\ ~loading /\ error = NoError /\ content # None

\* Logout in the layout header: clearToken(); setAuthed(false).  The pages
\* are unmounted and a fresh AuthModal is mounted; requests in flight still
\* settle
Logout ==
  /\ authed
  /\ ~sitesLoading
  /\ sitesError = NoError
  /\ token' = NoToken
  /\ authed' = FALSE
  /\ ModalFresh(modalToken', modalError', modalLoading')
  /\ UNCHANGED sitesVars
  /\ UNCHANGED authHistory
  /\ UNCHANGED authReq
  /\ UNCHANGED apiVars
  /\ UNCHANGED listVars
  /\ UNCHANGED navVars
  /\ UNCHANGED <<page, messages, revisions, srvRevisions, settled>>
  /\ UNCHANGED loadVars
  /\ UNCHANGED chatVars
  /\ UNCHANGED saveVars
  /\ UNCHANGED approveVars
  /\ UNCHANGED rejectVars
  /\ UNCHANGED ideasVars

\* ------------------------------------------------ ReviewPage.handleSendChat
optimisticMsg(msg) == [id |-> "temp", role |-> "human", message |-> msg]

agentMsg(response) ==
  [id |-> "agent", role |-> "agent", message |-> <<response.message>>]

errMsg(emsg) ==
  [id |-> "err", role |-> "agent", message |-> <<"Error: ">> \o emsg]

prependMessage(prev, m) == <<m>> \o prev

\* setMessages((prev) => [...prev, m])
appendMessage(prev, m) == Append(prev, m)

\* bodies of an OK answer of the review chat endpoint
ChatResponses ==
  {[message |-> "reply", revision |-> r, updated_content |-> c] :
     r \in {None, "rev"}, c \in {None, "c1"}}

ChatFrame ==
  /\ AppFrame
  /\ UNCHANGED listVars
  /\ UNCHANGED ideasVars
  /\ UNCHANGED <<loading, error, loadReq, settled>>
  /\ UNCHANGED saveVars
  /\ UNCHANGED approveVars
  /\ UNCHANGED rejectVars

\* the chat input is edited (it is disabled while a send is in flight)
SetChatInput ==
  /\ Rendered
  /\ ~chatSending
  /\ Len(chatLog) < MaxSends
  /\ \E s \in Strings : s # chatInput /\ chatInput' = s
  /\ UNCHANGED <<token, authed, page, messages, revisions, srvRevisions, content>>
  /\ ChatFrame
  /\ UNCHANGED navVars
  /\ UNCHANGED <<chatSending, chatPc, chatReq, chatLog>>

\* Enter in the input or a click on Send: handleSendChat up to its await
HandleSendChat ==
  /\ Rendered
  /\ ~chatSending
  /\ Len(chatLog) < MaxSends
  /\ IF Trim(chatInput) = <<>>
       THEN /\ chatLog' = Append(chatLog, [blank |-> TRUE, base |-> Len(messages), sent |-> "no"])
            /\ UNCHANGED <<messages, chatInput, chatSending, chatPc, chatReq>>
       ELSE LET msg == Trim(chatInput)
                optimistic == appendMessage(messages, optimisticMsg(msg))
            IN /\ chatLog' = Append(chatLog,
                    [blank |-> FALSE, base |-> Len(messages),
                     sent |-> IF apiFetchThrowsNoToken(token) THEN "failed" ELSE "pending"])
               /\ chatInput' = <<>>
               /\ IF apiFetchThrowsNoToken(token)
                    THEN /\ messages' = appendMessage(optimistic, errMsg(ErrNoToken))
                         /\ chatSending' = FALSE
                         /\ UNCHANGED <<chatPc, chatReq>>
                    ELSE /\ messages' = optimistic
                         /\ chatSending' = TRUE
                         /\ chatPc' = "sending"
                         /\ chatReq' = {apiRequest(token, "POST /api/content/:id/review/chat", [message |-> msg])}
  /\ UNCHANGED <<token, authed, page, revisions, srvRevisions, content>>
  /\ ChatFrame
  /\ UNCHANGED navVars

\* sendReviewChat settles: the rest of the try block up to the next await,
\* or the catch block, then finally
ChatSettle ==
  /\ chatPc = "sending"
  /\ \E res \in Responses, response \in ChatResponses :
     /\ chatLog' = [chatLog EXCEPT ![Len(chatLog)].sent =
                      IF apiFetchThrows(res) THEN "failed" ELSE "ok"]
     /\ IF apiFetchThrows(res)
         THEN /\ messages' = appendMessage(messages, errMsg(apiFetchError(res)))
              /\ chatSending' = FALSE
              /\ chatPc' = "idle"
              /\ chatReq' = NoReq
              /\ UNCHANGED <<content, contentStage, srvRevisions>>
         ELSE /\ srvRevisions' = IF response.revision # None
                                   THEN srvRevisions + 1 ELSE srvRevisions
              /\ content' = IF response.updated_content # None
                              THEN response.updated_content ELSE content
              /\ contentStage' = IF response.updated_content # None
                                   THEN srvStage ELSE contentStage
              /\ IF response.revision = None
                   THEN /\ messages' = appendMessage(messages, agentMsg(response))
                        /\ chatSending' = FALSE
                        /\ chatPc' = "idle"
                        /\ chatReq' = NoReq
                   ELSE IF apiFetchThrowsNoToken(token)
                     THEN /\ messages' = appendMessage(
                                           appendMessage(messages, agentMsg(response)),
                                           errMsg(ErrNoToken))
                          /\ chatSending' = FALSE
                          /\ chatPc' = "idle"
                          /\ chatReq' = NoReq
                     ELSE /\ messages' = appendMessage(messages, agentMsg(response))
                          /\ chatPc' = "refreshing"
                          /\ chatReq' = {apiRequest(token, "GET /api/content/:id/revisions", NoBody)}
                          /\ UNCHANGED chatSending
  /\ UNCHANGED <<token, authed, page, revisions, chatInput>>
  /\ UNCHANGED <<srvStage, knownStage>>
  /\ ChatFrame

\* fetchRevisions inside handleSendChat settles: setRevisions or the catch
\* block, then finally
ChatRevisionsSettle ==
  /\ chatPc = "refreshing"
  /\ \E res \in Responses :
       IF apiFetchThrows(res)
         THEN /\ messages' = appendMessage(messages, errMsg(apiFetchError(res)))
              /\ UNCHANGED revisions
         ELSE /\ revisions' = srvRevisions
              /\ UNCHANGED messages
  /\ chatSending' = FALSE
  /\ chatPc' = "idle"
  /\ chatReq' = NoReq
  /\ UNCHANGED <<token, authed, page, srvRevisions, content, chatInput, chatLog>>
  /\ ChatFrame
  /\ UNCHANGED navVars

\* --------------------------------------------------- ReviewPage.handleSave
RECURSIVE Join(_)
\* Array.prototype.join(', ')
Join(xs) ==
  IF xs = <<>> THEN <<>>
  ELSE IF Len(xs) = 1 THEN <<xs[1]>>
  ELSE <<xs[1], ", ">> \o Join(Tail(xs))

\* the message of the try block once both awaits returned
savedMessage(result) ==
  IF Len(result.concerns) > 0
    THEN [type |-> "warning", text |-> <<"Saved. Concerns: ">> \o Join(result.concerns)]
    ELSE [type |-> "success",
          text |-> <<IF result.diff_summary # None
                       THEN result.diff_summary ELSE "Changes saved.">>]

\* the message of the catch block
saveFailedMessage(emsg) == [type |-> "warning", text |-> <<"Save failed: ">> \o emsg]

\* bodies of an OK answer of createRevision
SaveResults ==
  {[concerns |-> c, diff_summary |-> d] :
     c \in {<<>>, <<"tone">>, <<"tone", "length">>}, d \in {None, "diff"}}

ReviewFrame ==
  /\ AppFrame
  /\ UNCHANGED listVars
  /\ UNCHANGED ideasVars
  /\ UNCHANGED <<loading, error, loadReq, messages, content>>
  /\ UNCHANGED chatVars

\* click on Save Changes: handleSave up to its first await
HandleSave ==
  /\ Rendered
  /\ ~saving
  /\ Len(saveLog) < MaxSaves
  /\ IF apiFetchThrowsNoToken(token)
       THEN /\ saveMessage' = saveFailedMessage(ErrNoToken)
            /\ saveLog' = Append(saveLog, [created |-> FALSE])
            /\ UNCHANGED <<saving, savePc, saveReq>>
       ELSE /\ saveMessage' = NoSaveMessage
            /\ saving' = TRUE
            /\ savePc' = "creating"
            /\ saveReq' = {apiRequest(token, "POST /api/content/:id/revisions",
                                      [updated_md |-> "markdown"])}
            /\ saveLog' = Append(saveLog, [created |-> FALSE])
  /\ UNCHANGED <<token, authed, page, revisions, srvRevisions, saveResult, saveTimers,
                 settled>>
  /\ UNCHANGED approveVars
  /\ UNCHANGED rejectVars
  /\ ReviewFrame
  /\ UNCHANGED navVars

\* createRevision settles: on success handleSave goes on to fetchRevisions
SaveCreateSettle ==
  /\ savePc = "creating"
  /\ \E res \in Responses, result \in SaveResults :
       IF apiFetchThrows(res)
            THEN /\ saveMessage' = saveFailedMessage(apiFetchError(res))
                 /\ saving' = FALSE
                 /\ savePc' = "idle"
                 /\ saveReq' = NoReq
                 /\ UNCHANGED <<srvRevisions, saveResult, saveLog>>
            ELSE /\ srvRevisions' = srvRevisions + 1
                 /\ saveLog' = [saveLog EXCEPT ![Len(saveLog)].created = TRUE]
                 /\ IF apiFetchThrowsNoToken(token)
                      THEN /\ saveMessage' = saveFailedMessage(ErrNoToken)
                           /\ saving' = FALSE
                           /\ savePc' = "idle"
                           /\ saveReq' = NoReq
                           /\ UNCHANGED saveResult
                      ELSE /\ savePc' = "refreshing"
                           /\ saveResult' = result
                           /\ saveReq' = {apiRequest(token, "GET /api/content/:id/revisions", NoBody)}
                           /\ UNCHANGED <<saveMessage, saving>>
  /\ UNCHANGED <<token, authed, page, revisions, saveTimers, settled>>
  /\ UNCHANGED approveVars
  /\ UNCHANGED rejectVars
  /\ ReviewFrame
  /\ UNCHANGED navVars

\* fetchRevisions inside handleSave settles: the rest of the try block or
\* the catch block, then finally
SaveRevisionsSettle ==
  /\ savePc = "refreshing"
  /\ \E res \in Responses :
       IF apiFetchThrows(res)
            THEN /\ saveMessage' = saveFailedMessage(apiFetchError(res))
                 /\ UNCHANGED <<revisions, saveTimers>>
            ELSE /\ revisions' = srvRevisions
                 /\ saveMessage' = savedMessage(saveResult)
                 /\ saveTimers' = saveTimers + 1
  /\ saving' = FALSE
  /\ savePc' = "idle"
  /\ saveReq' = NoReq
  /\ saveResult' = NoSaveResult
  /\ UNCHANGED <<token, authed, page, srvRevisions, saveLog, settled>>
  /\ UNCHANGED approveVars
  /\ UNCHANGED rejectVars
  /\ ReviewFrame
  /\ UNCHANGED navVars

\* setTimeout(() => setSaveMessage(null), 5000) fires
SaveMessageTimeout ==
  /\ saveTimers > 0
  /\ saveTimers' = saveTimers - 1
  /\ saveMessage' = NoSaveMessage
  /\ UNCHANGED <<token, authed, page, revisions, srvRevisions, settled>>
  /\ UNCHANGED <<saving, savePc, saveReq, saveResult, saveLog>>
  /\ UNCHANGED approveVars
  /\ UNCHANGED rejectVars
  /\ ReviewFrame
  /\ UNCHANGED navVars

\* ------------------------------------------- api.ts: approve / reject bodies
approveBodyNoDefault(targetStage) == [target_stage |-> targetStage]

\* approveContent: { target_stage: targetStage || 'scheduled' }
approveBody(targetStage) ==
  [target_stage |-> IF targetStage = None \/ targetStage = ""
                      THEN "scheduled" ELSE targetStage]

\* rejectContent: { target_stage: targetStage, feedback }
rejectBody(targetStage, feedback) ==
  [target_stage |-> targetStage, feedback |-> feedback]

\* ------------------------------------------------ ReviewPage.handleApprove
\* the targets of the two buttons of the action bar
ApproveButtons == {"scheduled", "published"}

pageAfterFinally(threw, current) == "content"

\* navigate('/content') is the statement after the await inside the try block
pageAfterSettle(threw, current) == IF threw THEN current ELSE "content"

\* the service moves the item to the target stage of an approve or reject
\* request it answers with OK
stageAfterSettle(threw, r, current) == IF threw THEN current ELSE r.body.target_stage

\* click on Approve or on Approve & Publish: handleApprove up to its await
HandleApprove ==
  /\ Rendered
  /\ ~approving
  /\ \E targetStage \in ApproveButtons :
       IF apiFetchThrowsNoToken(token)
         THEN UNCHANGED <<approving, approveReq>>
         ELSE /\ approving' = TRUE
              /\ approveReq' = {apiRequest(token, "POST /api/content/:id/review/approve",
                                           approveBody(targetStage))}
  /\ UNCHANGED <<token, authed, page, revisions, srvRevisions, settled>>
  /\ UNCHANGED saveVars
  /\ UNCHANGED rejectVars
  /\ ReviewFrame
  /\ UNCHANGED navVars

\* approveContent settles: navigate, or the catch block; then finally
ApproveSettle ==
  /\ approveReq # NoReq
  /\ \E r \in approveReq, res \in Responses :
       /\ settled' = [handler |-> "approve", kind |-> res.kind]
       /\ page' = pageAfterSettle(apiFetchThrows(res), page)
       /\ srvStage' = stageAfterSettle(apiFetchThrows(res), r, srvStage)
       /\ knownStage' = IF page' = page THEN knownStage ELSE None
  /\ UNCHANGED contentStage
  /\ approving' = FALSE
  /\ approveReq' = NoReq
  /\ UNCHANGED <<token, authed, revisions, srvRevisions>>
  /\ UNCHANGED saveVars
  /\ UNCHANGED rejectVars
  /\ ReviewFrame

\* -------------------------------------------------- ReviewPage: reject modal
RejectStages == {"research", "draft"}

\* click on Reject in the action bar
OpenRejectModal ==
  /\ Rendered
  /\ ~showRejectModal
  /\ showRejectModal' = TRUE
  /\ UNCHANGED <<rejectStage, rejectFeedback, rejecting, rejectReq>>
  /\ UNCHANGED <<token, authed, page, revisions, srvRevisions, settled>>
  /\ UNCHANGED saveVars
  /\ UNCHANGED approveVars
  /\ ReviewFrame
  /\ UNCHANGED navVars

\* click on one of the two stage pills
SetRejectStage ==
  /\ Rendered
  /\ showRejectModal
  /\ \E stage \in RejectStages : stage # rejectStage /\ rejectStage' = stage
  /\ UNCHANGED <<showRejectModal, rejectFeedback, rejecting, rejectReq>>
  /\ UNCHANGED <<token, authed, page, revisions, srvRevisions, settled>>
  /\ UNCHANGED saveVars
  /\ UNCHANGED approveVars
  /\ ReviewFrame
  /\ UNCHANGED navVars

\* the feedback textarea is edited
SetRejectFeedback ==
  /\ Rendered
  /\ showRejectModal
  /\ \E s \in Strings : s # rejectFeedback /\ rejectFeedback' = s
  /\ UNCHANGED <<showRejectModal, rejectStage, rejecting, rejectReq>>
  /\ UNCHANGED <<token, authed, page, revisions, srvRevisions, settled>>
  /\ UNCHANGED saveVars
  /\ UNCHANGED approveVars
  /\ ReviewFrame
  /\ UNCHANGED navVars

\* click on Cancel
CancelReject ==
  /\ Rendered
  /\ showRejectModal
  /\ showRejectModal' = FALSE
  /\ rejectFeedback' = <<>>
  /\ UNCHANGED <<rejectStage, rejecting, rejectReq>>
  /\ UNCHANGED <<token, authed, page, revisions, srvRevisions, settled>>
  /\ UNCHANGED saveVars
  /\ UNCHANGED approveVars
  /\ ReviewFrame
  /\ UNCHANGED navVars

rejectFeedbackRaw(feedback) == feedback

\* the feedback argument handleReject passes to rejectContent
rejectFeedbackArg(feedback) == Trim(feedback)

\* handleReject returns at once on blank feedback; the button is disabled then
rejectAllowed(feedback) == Trim(feedback) # <<>>

\* click on Reject & Send Back: handleReject up to its await
HandleReject ==
  /\ Rendered
  /\ showRejectModal
  /\ ~rejecting
  /\ rejectAllowed(rejectFeedback)
  /\ IF apiFetchThrowsNoToken(token)
       THEN UNCHANGED <<rejecting, rejectReq>>
       ELSE /\ rejecting' = TRUE
            /\ rejectReq' = {apiRequest(token, "POST /api/content/:id/review/reject",
                                rejectBody(rejectStage, rejectFeedbackArg(rejectFeedback)))}
  /\ UNCHANGED <<showRejectModal, rejectStage, rejectFeedback>>
  /\ UNCHANGED <<token, authed, page, revisions, srvRevisions, settled>>
  /\ UNCHANGED saveVars
  /\ UNCHANGED approveVars
  /\ ReviewFrame
  /\ UNCHANGED navVars

\* rejectContent settles: navigate, or the catch block; then finally
RejectSettle ==
  /\ rejectReq # NoReq
  /\ \E r \in rejectReq, res \in Responses :
       /\ settled' = [handler |-> "reject", kind |-> res.kind]
       /\ page' = pageAfterSettle(apiFetchThrows(res), page)
       /\ srvStage' = stageAfterSettle(apiFetchThrows(res), r, srvStage)
       /\ knownStage' = IF page' = page THEN knownStage ELSE None
  /\ UNCHANGED contentStage
  /\ rejecting' = FALSE
  /\ rejectReq' = NoReq
  /\ UNCHANGED <<showRejectModal, rejectStage, rejectFeedback>>
  /\ UNCHANGED <<token, authed, revisions, srvRevisions>>
  /\ UNCHANGED saveVars
  /\ UNCHANGED approveVars
  /\ ReviewFrame

NextSave ==
  \/ LoadSettle
  \/ Logout
  \/ HandleSave
  \/ SaveCreateSettle
  \/ SaveRevisionsSettle
  \/ SaveMessageTimeout

SpecSave == InitReview /\ [][NextSave]_vars

NextReview ==
  \/ LoadSettle
  \/ Logout
  \/ HandleApprove
  \/ ApproveSettle
  \/ OpenRejectModal
  \/ SetRejectStage
  \/ SetRejectFeedback
  \/ CancelReject
  \/ HandleReject
  \/ RejectSettle

SpecReview == InitReview /\ [][NextReview]_vars

\* ------------------------------------------------------------------ IdeasTab
\* fetchIdeas: a parameter is set only for a non-empty filter value
fetchIdeasParams(status, wt) ==
  [status |-> IF status = "" THEN None ELSE status,
   watch_topic_id |-> IF wt = "" THEN None ELSE wt]

\* the service honours the filter parameters
MatchesParams(idea, params) ==
  /\ params.status = None \/ idea.status = params.status
  /\ params.watch_topic_id = None \/ idea.watch_topic_id = params.watch_topic_id

ServerIdeas(srv, params) ==
  SelectSeq([i \in IdeaIds |-> srv[i]], LAMBDA idea : MatchesParams(idea, params))

\* ideas.map((i) => i.id === idea.id ? { ...i, status: 'converted' } : i)
approvedList(list, id) ==
  [k \in 1..Len(list) |->
     IF list[k].id = id THEN [list[k] EXCEPT !.status = "converted"] ELSE list[k]]

\* ideas.map((i) => i.id === idea.id
\*   ? { ...i, status: 'dismissed', dismissed_reason: reason || null } : i)
dismissedList(list, id, reason) ==
  [k \in 1..Len(list) |->
     IF list[k].id = id
       THEN [list[k] EXCEPT !.status = "dismissed",
                            !.dismissed_reason = IF reason = "" THEN None ELSE reason]
       ELSE list[k]]

IdeasOtherFrame ==
  /\ AppFrame
  /\ UNCHANGED listVars
  /\ UNCHANGED navVars
  /\ UNCHANGED <<token, authed, page, loading, error, loadReq, messages, content,
                 revisions, srvRevisions, settled>>
  /\ UNCHANGED chatVars
  /\ UNCHANGED saveVars
  /\ UNCHANGED approveVars
  /\ UNCHANGED rejectVars

\* the tab has just been mounted: its effect has called load()
InitIdeas ==
  /\ token = SessionToken
  /\ authed = TRUE
  /\ page = "ideas"
  /\ ReviewFresh
  /\ loadReq = NoReq
  /\ AppLoggedIn
  /\ ListUnmounted
  /\ NavUnvisited
  /\ srvIdeas = StoredIdeas
  /\ ideas = <<>>
  /\ ideasLoading = TRUE
  /\ ideasError = NoError
  /\ statusFilter = ""
  /\ wtFilter = ""
  /\ actionPending = NoIdea
  /\ ideasLoadReq = {apiRequest(token, "GET /api/sites/:site/ideas", fetchIdeasParams("", ""))}
  /\ ideaOps = {}
  /\ opCount = 0
  /\ filterChanges = 0
  /\ opLog = <<>>

\* the filters and the list are rendered
IdeasVisible == authed /\ page = "ideas" /\ ~ideasLoading /\ ideasError = NoError

\* load(), called by the effect when a filter changed
IdeasLoad(status, wt) ==
  IF apiFetchThrowsNoToken(token)
    THEN /\ ideasError' = ErrNoToken
         /\ UNCHANGED <<ideasLoading, ideasLoadReq>>
    ELSE /\ ideasLoading' = TRUE
         /\ ideasLoadReq' = {apiRequest(token, "GET /api/sites/:site/ideas",
                                        fetchIdeasParams(status, wt))}
         /\ UNCHANGED ideasError

\* the requests of load() settle
IdeasLoadSettle ==
  /\ ideasLoadReq # NoReq
  /\ \E res \in Responses, r \in ideasLoadReq :
       IF apiFetchThrows(res)
         THEN /\ ideasError' = apiFetchError(res)
              /\ UNCHANGED ideas
         ELSE /\ ideas' = ServerIdeas(srvIdeas, r.body)
              /\ UNCHANGED ideasError
  /\ ideasLoading' = FALSE
  /\ ideasLoadReq' = NoReq
  /\ UNCHANGED <<srvIdeas, statusFilter, wtFilter, actionPending, ideaOps, opCount,
                 filterChanges, opLog>>
  /\ IdeasOtherFrame

\* the status select is changed
SetStatusFilter ==
  /\ IdeasVisible
  /\ filterChanges < MaxFilterChanges
  /\ filterChanges' = filterChanges + 1
  /\ \E v \in {""} \cup IdeaStatuses :
       /\ v # statusFilter
       /\ statusFilter' = v
       /\ IdeasLoad(v, wtFilter)
  /\ UNCHANGED <<srvIdeas, ideas, wtFilter, actionPending, ideaOps, opCount, opLog>>
  /\ IdeasOtherFrame

\* the watch-topic select is changed
SetWtFilter ==
  /\ IdeasVisible
  /\ filterChanges < MaxFilterChanges
  /\ filterChanges' = filterChanges + 1
  /\ \E v \in {""} \cup WatchTopics :
       /\ v # wtFilter
       /\ wtFilter' = v
       /\ IdeasLoad(statusFilter, v)
  /\ UNCHANGED <<srvIdeas, ideas, statusFilter, actionPending, ideaOps, opCount, opLog>>
  /\ IdeasOtherFrame

\* the Approve / Dismiss buttons of the k-th row can be clicked
IdeaButtonsEnabled(k) ==
  /\ IdeasVisible
  /\ k \in 1..Len(ideas)
  /\ ideas[k].status = "proposed"
  /\ actionPending # ideas[k].id

\* click on Approve, confirmed: IdeasTab.handleApprove up to its await
IdeaHandleApprove ==
  /\ opCount < MaxOps
  /\ \E k \in 1..Len(ideas) :
       /\ IdeaButtonsEnabled(k)
       /\ IF apiFetchThrowsNoToken(token)
            THEN /\ actionPending' = NoIdea
                 /\ opLog' = Append(opLog, [id |-> ideas[k].id, kind |-> "approve",
                                            result |-> "failed", with |-> {}])
                 /\ UNCHANGED ideaOps
            ELSE /\ actionPending' = ideas[k].id
                 /\ opLog' = Append(opLog, [id |-> ideas[k].id, kind |-> "approve",
                                            result |-> "pending",
                                            with |-> {o.n : o \in ideaOps}])
                 /\ ideaOps' = ideaOps \cup
                      {[n |-> opCount + 1, kind |-> "approve", id |-> ideas[k].id,
                        reason |-> "", closure |-> ideas,
                        req |-> apiRequest(token, "POST /api/sites/:site/ideas/:id/approve", NoBody)]}
  /\ opCount' = opCount + 1
  /\ UNCHANGED <<srvIdeas, ideas, ideasLoading, ideasError, statusFilter, wtFilter,
                 ideasLoadReq, filterChanges>>
  /\ IdeasOtherFrame

\* click on Dismiss, prompt answered: IdeasTab.handleDismiss up to its await
IdeaHandleDismiss ==
  /\ opCount < MaxOps
  /\ \E k \in 1..Len(ideas), reason \in {"", "dup"} :
       /\ IdeaButtonsEnabled(k)
       /\ IF apiFetchThrowsNoToken(token)
            THEN /\ actionPending' = NoIdea
                 /\ opLog' = Append(opLog, [id |-> ideas[k].id, kind |-> "dismiss",
                                            result |-> "failed", with |-> {}])
                 /\ UNCHANGED ideaOps
            ELSE /\ actionPending' = ideas[k].id
                 /\ opLog' = Append(opLog, [id |-> ideas[k].id, kind |-> "dismiss",
                                            result |-> "pending",
                                            with |-> {o.n : o \in ideaOps}])
                 /\ ideaOps' = ideaOps \cup
                      {[n |-> opCount + 1, kind |-> "dismiss", id |-> ideas[k].id,
                        reason |-> reason, closure |-> ideas,
                        req |-> apiRequest(token, "POST /api/sites/:site/ideas/:id/dismiss", NoBody)]}
  /\ opCount' = opCount + 1
  /\ UNCHANGED <<srvIdeas, ideas, ideasLoading, ideasError, statusFilter, wtFilter,
                 ideasLoadReq, filterChanges>>
  /\ IdeasOtherFrame

\* approveIdea / dismissIdea settles: setIdeas over the list the handler
\* closed over, or the catch block; then finally
IdeaOpSettle ==
  /\ \E op \in ideaOps, res \in Responses :
       /\ ideaOps' = ideaOps \ {op}
       /\ opLog' = [opLog EXCEPT ![op.n].result =
                      IF apiFetchThrows(res) THEN "failed" ELSE "ok"]
       /\ IF apiFetchThrows(res)
            THEN UNCHANGED <<srvIdeas, ideas>>
            ELSE /\ srvIdeas' = [srvIdeas EXCEPT ![op.id] =
                                   IF op.kind = "approve"
                                     THEN approvedList(<<@>>, op.id)[1]
                                     ELSE dismissedList(<<@>>, op.id, op.reason)[1]]
                 /\ ideas' = IF op.kind = "approve"
                               THEN approvedList(op.closure, op.id)
                               ELSE dismissedList(op.closure, op.id, op.reason)
  /\ actionPending' = NoIdea
  /\ UNCHANGED <<ideasLoading, ideasError, statusFilter, wtFilter, ideasLoadReq, opCount,
                 filterChanges>>
  /\ IdeasOtherFrame

NextIdeas ==
  \/ IdeasLoadSettle
  \/ SetStatusFilter
  \/ SetWtFilter
  \/ IdeaHandleApprove
  \/ IdeaHandleDismiss
  \/ IdeaOpSettle

SpecIdeas == InitIdeas /\ [][NextIdeas]_vars

\* ---------------------------------------------------- App and AuthModal
MaxSubmits == 2

PagesFrame ==
  /\ UNCHANGED <<page, loading, error, content, messages, revisions, srvRevisions,
                 loadReq, settled>>
  /\ UNCHANGED chatVars
  /\ UNCHANGED saveVars
  /\ UNCHANGED approveVars
  /\ UNCHANGED rejectVars
  /\ UNCHANGED ideasVars

\* the effect of useSiteProvider: nothing is fetched without a stored token
SitesEffect(storage) ==
  IF getToken(storage) = NoToken
    THEN /\ sitesLoading' = FALSE
         /\ UNCHANGED <<sitesError, sitesReq>>
    ELSE /\ sitesLoading' = TRUE
         /\ sitesError' = NoError
         /\ sitesReq' = sitesReq \cup {apiRequest(storage, "GET /api/sites", NoBody)}

\* the browser has nothing stored and opens the app
InitAuth ==
  /\ token = NoToken
  /\ authed = hasToken(token)
  /\ page = "dashboard"
  /\ ReviewFresh
  /\ loadReq = NoReq
  /\ IdeasUnmounted
  /\ ModalFresh(modalToken, modalError, modalLoading)
  /\ authReq = NoReq
  /\ sitesLoading = FALSE
  /\ sitesError = NoError
  /\ sitesReq = NoReq
  /\ submits = 0
  /\ onAuthCalls = 0
  /\ validation = NoValidation
  /\ apiReq = NoReq
  /\ apiResult = NoApiResult
  /\ apiCalls = 0
  /\ ListUnmounted
  /\ NavUnvisited

\* the page is reloaded: App starts with authed = hasToken(); the requests
\* of the previous run are gone
AppStart ==
  /\ authed' = hasToken(token)
  /\ ModalFresh(modalToken', modalError', modalLoading')
  /\ authReq' = NoReq
  /\ IF getToken(token) = NoToken
       THEN /\ sitesLoading' = FALSE
            /\ sitesError' = NoError
            /\ sitesReq' = NoReq
       ELSE /\ sitesLoading' = TRUE
            /\ sitesError' = NoError
            /\ sitesReq' = {apiRequest(token, "GET /api/sites", NoBody)}
  /\ UNCHANGED token
  /\ UNCHANGED authHistory
  /\ UNCHANGED apiVars
  /\ UNCHANGED listVars
  /\ UNCHANGED navVars
  /\ PagesFrame

\* the token input is edited: setTokenValue(value); setError('')
SetModalToken ==
  /\ ~authed
  /\ \E s \in Strings : s # modalToken /\ modalToken' = s
  /\ modalError' = <<>>
  /\ UNCHANGED <<token, authed, modalLoading, authReq>>
  /\ UNCHANGED sitesVars
  /\ UNCHANGED authHistory
  /\ UNCHANGED apiVars
  /\ UNCHANGED listVars
  /\ UNCHANGED navVars
  /\ PagesFrame

validationAdmitsAnyAnswer(res) == res.kind # "neterr"

\* the validation answer lets handleSubmit reach onAuth(): neither the
\* !res.ok return nor the catch block was taken
validationAdmits(res) == res.kind = "ok"

\* the error handleSubmit shows for an answer that does not admit
validationError(res) ==
  IF res.kind = "neterr"
    THEN <<"Connection failed: ">> \o ErrNetwork
    ELSE <<"Invalid token (", res.status, ")">>

\* the form is submitted: AuthModal.handleSubmit up to its await
HandleSubmit ==
  /\ ~authed
  /\ ~modalLoading
  /\ submits < MaxSubmits
  /\ submits' = submits + 1
  /\ IF Trim(modalToken) = <<>>
       THEN /\ modalError' = <<"Please enter a token">>
            /\ UNCHANGED <<token, modalLoading, authReq>>
       ELSE /\ modalLoading' = TRUE
            /\ modalError' = <<>>
            /\ token' = Trim(modalToken)
            /\ authReq' = {[n |-> submits + 1, path |-> "GET /api/sites",
                            auth |-> <<"Bearer ">> \o Trim(modalToken)]}
  /\ UNCHANGED <<authed, modalToken, onAuthCalls, validation>>
  /\ UNCHANGED sitesVars
  /\ UNCHANGED apiVars
  /\ UNCHANGED listVars
  /\ UNCHANGED navVars
  /\ PagesFrame

\* the validation request settles: onAuth(), or the error is shown
AuthSettle ==
  /\ authReq # NoReq
  /\ \E r \in authReq, res \in Responses :
       /\ validation' = [n |-> r.n, kind |-> res.kind, status |-> res.status,
                        auth |-> r.auth]
       /\ IF validationAdmits(res)
            THEN /\ onAuthCalls' = onAuthCalls + 1
                 /\ authed' = TRUE
                 /\ SitesEffect(token)
                 /\ UNCHANGED <<modalLoading, modalError>>
            ELSE /\ modalLoading' = FALSE
                 /\ modalError' = validationError(res)
                 /\ UNCHANGED <<authed, onAuthCalls>>
                 /\ UNCHANGED sitesVars
  /\ authReq' = NoReq
  /\ UNCHANGED <<token, modalToken, submits>>
  /\ UNCHANGED apiVars
  /\ UNCHANGED listVars
  /\ UNCHANGED navVars
  /\ PagesFrame

\* the fetchSites request of useSiteProvider settles
SitesSettle ==
  /\ \E r \in sitesReq, res \in Responses :
       /\ sitesReq' = sitesReq \ {r}
       /\ sitesError' = IF apiFetchThrows(res) THEN apiFetchError(res) ELSE sitesError
  /\ sitesLoading' = FALSE
  /\ UNCHANGED <<token, authed, authReq>>
  /\ UNCHANGED modalVars
  /\ UNCHANGED authHistory
  /\ UNCHANGED apiVars
  /\ UNCHANGED listVars
  /\ UNCHANGED navVars
  /\ PagesFrame

\* click on Try different token on the load-failure screen
TryDifferentToken ==
  /\ authed
  /\ ~sitesLoading
  /\ sitesError # NoError
  /\ token' = NoToken
  /\ authed' = FALSE
  /\ ModalFresh(modalToken', modalError', modalLoading')
  /\ UNCHANGED sitesVars
  /\ UNCHANGED authHistory
  /\ UNCHANGED authReq
  /\ UNCHANGED apiVars
  /\ UNCHANGED listVars
  /\ UNCHANGED navVars
  /\ PagesFrame

NextAuth ==
  \/ AppStart
  \/ SetModalToken
  \/ HandleSubmit
  \/ AuthSettle
  \/ SitesSettle
  \/ TryDifferentToken
  \/ Logout

SpecAuth == InitAuth /\ [][NextAuth]_vars

\* ------------------------------------------------- apiFetch, called directly
MaxCalls == 3

ApiPaths == {"GET /api/sites", "GET /api/content"}

\* setToken(t)
ApiSetToken ==
  /\ \E t \in Tokens : t # token /\ token' = t
  /\ UNCHANGED <<authed, authReq>>
  /\ UNCHANGED modalVars
  /\ UNCHANGED sitesVars
  /\ UNCHANGED authHistory
  /\ UNCHANGED apiVars
  /\ UNCHANGED listVars
  /\ UNCHANGED navVars
  /\ PagesFrame

\* clearToken()
ApiClearToken ==
  /\ token # NoToken
  /\ token' = NoToken
  /\ UNCHANGED <<authed, authReq>>
  /\ UNCHANGED modalVars
  /\ UNCHANGED sitesVars
  /\ UNCHANGED authHistory
  /\ UNCHANGED apiVars
  /\ UNCHANGED listVars
  /\ UNCHANGED navVars
  /\ PagesFrame

\* apiFetch(path) up to its await
ApiCall ==
  /\ apiCalls < MaxCalls
  /\ apiCalls' = apiCalls + 1
  /\ \E path \in ApiPaths :
       IF apiFetchThrowsNoToken(token)
         THEN /\ apiResult' = [threw |-> TRUE, message |-> ErrNoToken, res |-> NoResponse]
              /\ UNCHANGED apiReq
         ELSE /\ apiReq' = apiReq \cup {apiRequest(token, path, NoBody)}
              /\ UNCHANGED apiResult
  /\ UNCHANGED <<token, authed, authReq>>
  /\ UNCHANGED modalVars
  /\ UNCHANGED sitesVars
  /\ UNCHANGED authHistory
  /\ PagesFrame
  /\ UNCHANGED listVars
  /\ UNCHANGED navVars

\* the request settles: apiFetch throws or returns res.json()
ApiSettle ==
  /\ \E r \in apiReq, res \in Responses :
       /\ apiReq' = apiReq \ {r}
       /\ apiResult' = IF apiFetchThrows(res)
                         THEN [threw |-> TRUE, message |-> apiFetchError(res), res |-> res]
                         ELSE [threw |-> FALSE, message |-> <<res.text>>, res |-> res]
  /\ UNCHANGED <<token, authed, authReq, apiCalls>>
  /\ UNCHANGED modalVars
  /\ UNCHANGED sitesVars
  /\ UNCHANGED authHistory
  /\ PagesFrame
  /\ UNCHANGED listVars
  /\ UNCHANGED navVars

NextApi ==
  \/ ApiSetToken
  \/ ApiClearToken
  \/ ApiCall
  \/ ApiSettle

SpecApi == InitAuth /\ [][NextApi]_vars

\* ------------------------------- list pages: DashboardPage, ContentListPage
MaxFetches == 3

Sites == {"s1", "s2"}
StageFilters == {"", "draft", "review"}
ListPages == {"dashboard", "content"}

\* fetchContent(siteId, stage, 100): the query parameters; a falsy stage is
\* left out
fetchContentParams(siteId, stage) ==
  [site_id |-> siteId, stage |-> IF stage = "" THEN None ELSE stage, limit |-> 100]

\* the stage a list page asks for: DashboardPage passes undefined,
\* ContentListPage passes stageFilter || undefined
listStageArg(p, stage) == IF p = "content" THEN stage ELSE ""

\* the effect of the list page: setLoading(true) and fetchContent(...); the
\* callbacks run when the request settles
ListEffect(site, stage) ==
  /\ listLoading' = TRUE
  /\ listIssued' = listIssued + 1
  /\ listReqs' = listReqs \cup
       {[n |-> listIssued + 1,
         auth |-> apiRequest(token, "GET /api/content", NoBody).auth,
         params |-> fetchContentParams(site, listStageArg(page, stage))]}
  /\ listResults' = Append(listResults, "pending")
  /\ listOverlap' = (listOverlap \/ listReqs # NoReq)

ListOtherFrame ==
  /\ UNCHANGED <<token, authed, authReq>>
  /\ UNCHANGED modalVars
  /\ UNCHANGED sitesVars
  /\ UNCHANGED authHistory
  /\ UNCHANGED apiVars
  /\ UNCHANGED navVars
  /\ PagesFrame

\* a list page has just been mounted with a selected site: its effect has
\* run once
InitList ==
  /\ token = SessionToken
  /\ authed = TRUE
  /\ page \in ListPages
  /\ ReviewFresh
  /\ loadReq = NoReq
  /\ IdeasUnmounted
  /\ AppLoggedIn
  /\ selectedSite = "s1"
  /\ stageFilter = ""
  /\ listContent = NoContent
  /\ listLoading = TRUE
  /\ listError = NoError
  /\ listIssued = 1
  /\ listReqs = {[n |-> 1,
                  auth |-> apiRequest(token, "GET /api/content", NoBody).auth,
                  params |-> fetchContentParams(selectedSite, listStageArg(page, stageFilter))]}
  /\ listResults = <<"pending">>
  /\ listDone = 0
  /\ listOverlap = FALSE
  /\ NavUnvisited

\* the site select of the layout header, rendered above every page
SetSelectedSite ==
  /\ page \in ListPages
  /\ listIssued < MaxFetches
  /\ \E site \in Sites :
       /\ site # selectedSite
       /\ selectedSite' = site
       /\ ListEffect(site, stageFilter)
  /\ UNCHANGED <<stageFilter, listContent, listError, listDone>>
  /\ ListOtherFrame

\* the table and the stage select are rendered
ListVisible == ~listLoading /\ listError = NoError

\* the stage select of ContentListPage: setSearchParams
SetStageFilter ==
  /\ page = "content"
  /\ ListVisible
  /\ listIssued < MaxFetches
  /\ \E stage \in StageFilters :
       /\ stage # stageFilter
       /\ stageFilter' = stage
       /\ ListEffect(selectedSite, stage)
  /\ UNCHANGED <<selectedSite, listContent, listError, listDone>>
  /\ ListOtherFrame

\* a fetchContent request settles: .then(setContent), .catch(setError),
\* .finally(setLoading(false))
ListSettle ==
  /\ page \in ListPages
  /\ \E r \in listReqs, res \in Responses :
       /\ IF apiFetchThrows(res)
            THEN /\ listError' = apiFetchError(res)
                 /\ UNCHANGED listContent
            ELSE /\ listContent' = [n |-> r.n, params |-> r.params]
                 /\ UNCHANGED listError
       /\ listLoading' = FALSE
       /\ listReqs' = listReqs \ {r}
       /\ listResults' = [listResults EXCEPT ![r.n] = res.kind]
       /\ listDone' = r.n
  /\ UNCHANGED <<selectedSite, stageFilter, listIssued, listOverlap>>
  /\ ListOtherFrame

NextList ==
  \/ SetSelectedSite
  \/ SetStageFilter
  \/ ListSettle

SpecList == InitList /\ [][NextList]_vars

\* -------------------------------------------- the routes to the review page
Stages == {"research", "draft", "review", "scheduled", "published"}

NavOtherFrame ==
  /\ UNCHANGED <<token, authed, authReq>>
  /\ UNCHANGED modalVars
  /\ UNCHANGED sitesVars
  /\ UNCHANGED authHistory
  /\ UNCHANGED apiVars
  /\ UNCHANGED listVars
  /\ UNCHANGED ideasVars

\* no approve or reject request of an earlier visit is still in flight
NoReviewRequest == approveReq = NoReq /\ rejectReq = NoReq

\* the route /content/:id/review is entered: a fresh ReviewPage is mounted
\* and its load effect sends its requests
ReviewMount ==
  /\ page' = "review"
  /\ loading' = TRUE
  /\ error' = NoError
  /\ content' = None
  /\ contentStage' = None
  /\ messages' = <<>>
  /\ revisions' = 0
  /\ chatInput' = <<>>
  /\ chatSending' = FALSE
  /\ chatPc' = "idle"
  /\ chatReq' = NoReq
  /\ chatLog' = <<>>
  /\ saving' = FALSE
  /\ saveMessage' = NoSaveMessage
  /\ savePc' = "idle"
  /\ saveReq' = NoReq
  /\ saveResult' = NoSaveResult
  /\ saveTimers' = 0
  /\ saveLog' = <<>>
  /\ approving' = FALSE
  /\ approveReq' = NoReq
  /\ showRejectModal' = FALSE
  /\ rejectStage' = "draft"
  /\ rejectFeedback' = <<>>
  /\ rejecting' = FALSE
  /\ rejectReq' = NoReq
  /\ settled' = NothingSettled
  /\ loadReq' = {apiRequest(token, "GET /api/content/:id", NoBody)}
  /\ UNCHANGED srvRevisions

\* the app shows the dashboard or the content list; the item is in some
\* stage of the pipeline
InitNav ==
  /\ token = SessionToken
  /\ authed = TRUE
  /\ page \in ListPages
  /\ ReviewFresh
  /\ loadReq = NoReq
  /\ IdeasUnmounted
  /\ AppLoggedIn
  /\ ListUnmounted
  /\ srvStage \in {"draft", "review"}
  /\ knownStage = None
  /\ contentStage = None

\* the fetch of the content list or of the detail page answers: the page
\* knows the item with the stage the service holds
NavFetchSettle ==
  /\ page \in {"content", "detail"}
  /\ knownStage = None
  /\ knownStage' = srvStage
  /\ UNCHANGED <<page, loading, error, content, messages, revisions, srvRevisions,
                 loadReq, settled, srvStage, contentStage>>
  /\ UNCHANGED chatVars
  /\ UNCHANGED saveVars
  /\ UNCHANGED approveVars
  /\ UNCHANGED rejectVars
  /\ NavOtherFrame

\* the target of a click on a row of the content list
rowTarget(stage) == IF stage = "review" THEN "review" ELSE "detail"

\* click on the row of the item in the content list
ListRowClick ==
  /\ page = "content"
  /\ knownStage # None
  /\ NoReviewRequest
  /\ IF rowTarget(knownStage) = "review"
       THEN /\ ReviewMount
            /\ UNCHANGED knownStage
       ELSE /\ page' = "detail"
            /\ knownStage' = None
            /\ UNCHANGED <<loading, error, content, messages, revisions, srvRevisions,
                           loadReq, settled, contentStage>>
            /\ UNCHANGED chatVars
            /\ UNCHANGED saveVars
            /\ UNCHANGED approveVars
            /\ UNCHANGED rejectVars
  /\ UNCHANGED srvStage
  /\ NavOtherFrame

\* click on a row of the dashboard's recent content: always the detail page
DashboardRowClick ==
  /\ page = "dashboard"
  /\ page' = "detail"
  /\ knownStage' = None
  /\ UNCHANGED <<loading, error, content, messages, revisions, srvRevisions,
                 loadReq, settled, srvStage, contentStage>>
  /\ UNCHANGED chatVars
  /\ UNCHANGED saveVars
  /\ UNCHANGED approveVars
  /\ UNCHANGED rejectVars
  /\ NavOtherFrame

\* the Review Article link of the detail page is rendered
reviewLinkShown(stage) == stage = "review"

\* click on Review Article
DetailReviewLink ==
  /\ page = "detail"
  /\ reviewLinkShown(knownStage)
  /\ NoReviewRequest
  /\ ReviewMount
  /\ UNCHANGED <<srvStage, knownStage>>
  /\ NavOtherFrame

\* the route /content/:id/review is opened by its address or from the
\* browser history: the route renders ReviewPage whatever the item's stage
OpenReviewRoute ==
  /\ page # "review"
  /\ NoReviewRequest
  /\ ReviewMount
  /\ UNCHANGED <<srvStage, knownStage>>
  /\ NavOtherFrame

NextNav ==
  \/ NavFetchSettle
  \/ ListRowClick
  \/ DashboardRowClick
  \/ DetailReviewLink
  \/ OpenReviewRoute
  \/ LoadSettle
  \/ HandleApprove
  \/ ApproveSettle
  \/ OpenRejectModal
  \/ SetRejectStage
  \/ SetRejectFeedback
  \/ CancelReject
  \/ HandleReject
  \/ RejectSettle

SpecNav == InitNav /\ [][NextNav]_vars

NextChat ==
  \/ LoadSettle
  \/ Logout
  \/ SetChatInput
  \/ HandleSendChat
  \/ ChatSettle
  \/ ChatRevisionsSettle

SpecChat == InitReview /\ [][NextChat]_vars

\* ------------------------------------------------------------------ claims

\* C1: a non-blank chat input puts the human message at the end of the
\* message list while the sendReviewChat request is still in flight, and no
\* step of a send removes or reorders a message already in the list
C1_OptimisticAppendOnly ==
  [][/\ (chatVars' # chatVars) => IsPrefix(messages, messages')
     /\ (chatPc' = "sending") =>
          \E r \in chatReq' :
            /\ messages' # <<>>
            /\ messages'[Len(messages')] = optimisticMsg(r.body.message)
            /\ Trim(r.body.message) # <<>>]_vars

C1_Witness == chatPc = "sending" /\ Len(messages) >= 3

\* the list length at which the i-th call of handleSendChat ended
SendEnd(i) == IF i < Len(chatLog) THEN chatLog[i + 1].base ELSE Len(messages)

\* C2: when a send has ended chatSending is false and exactly one agent
\* message follows the human message, the reply after a successful send and
\* 'Error: ...' after a failed one; a blank input appends nothing
C2_ExactlyOneAgentMessage ==
  authed =>
  \A i \in 1..Len(chatLog) :
    (i < Len(chatLog) \/ chatPc = "idle") =>
      LET base == chatLog[i].base IN
      IF chatLog[i].blank
        THEN SendEnd(i) = base
        ELSE /\ (i = Len(chatLog) => ~chatSending)
             /\ SendEnd(i) = base + 2
             /\ messages[base + 1].role = "human"
             /\ messages[base + 2].role = "agent"
             /\ messages[base + 2].id = IF chatLog[i].sent = "ok" THEN "agent" ELSE "err"

ApproveSettled == approveReq # NoReq /\ approveReq' = NoReq
RejectSettled == rejectReq # NoReq /\ rejectReq' = NoReq

\* C3: the page changes to the content list only in a step in which an
\* approve (or reject) request settles with an OK response; a failed approve
\* leaves the page where it is; the approving flag is false after either
C3_ApproveNavigatesOnSuccess ==
  [][/\ (page' # page) =>
          /\ page = "review"
          /\ ApproveSettled \/ RejectSettled
          /\ settled'.kind = "ok"
          /\ page' = "content"
     /\ ApproveSettled =>
          /\ settled'.handler = "approve"
          /\ ~approving'
          /\ (settled'.kind = "ok") => page' = "content"
          /\ (settled'.kind # "ok") => page' = page
     /\ (approveReq = NoReq /\ approveReq' = NoReq) => ~approving']_vars

C3_Witness ==
  page = "content" /\ settled = [handler |-> "approve", kind |-> "ok"] /\ ~approving

\* C4: a reject request carries the trimmed, non-blank feedback and the stage
\* picked in the modal, 'research' or 'draft', 'draft' until one is picked; a
\* settling reject navigates only on an OK response, and a failed one leaves
\* the modal and the feedback as they are
C4_RejectRequest ==
  /\ rejectStage = "draft"
  /\ [][/\ rejectStage' \in RejectStages
        /\ (rejectReq = NoReq /\ rejectReq' # NoReq) =>
             \E r \in rejectReq' :
               /\ showRejectModal
               /\ r.body.feedback = Trim(rejectFeedback)
               /\ r.body.feedback # <<>>
               /\ r.body.feedback[1] # " "
               /\ r.body.feedback[Len(r.body.feedback)] # " "
               /\ r.body.target_stage = rejectStage
               /\ r.body.target_stage \in {"research", "draft"}
        /\ RejectSettled =>
             /\ settled'.handler = "reject"
             /\ (page' # page) => settled'.kind = "ok"
             /\ (settled'.kind # "ok") =>
                  /\ page' = page
                  /\ showRejectModal' = showRejectModal
                  /\ rejectFeedback' = rejectFeedback]_vars

C4_Witness ==
  /\ settled.handler = "reject"
  /\ settled.kind # "ok"
  /\ page = "review"
  /\ showRejectModal
  /\ Trim(rejectFeedback) # <<>>
  /\ Trim(rejectFeedback) # rejectFeedback

IsSaveFailed(m) == m.text # <<>> /\ m.text[1] = "Save failed: "

\* C5: once handleSave has ended, saving is false, and 'Save failed: ...' is
\* shown only when that save did not create the revision on the server
C5_SaveFailedOnlyWhenNotCreated ==
  (authed /\ savePc = "idle" /\ saveLog # <<>>) =>
    /\ ~saving
    /\ IsSaveFailed(saveMessage) => ~saveLog[Len(saveLog)].created

\* C9: an approve request in flight carries 'scheduled' or 'published';
\* approveContent fills in 'scheduled' for a missing target stage and passes
\* the targets of the two buttons through
C9_ApproveTargetStage ==
  /\ \A r \in approveReq : r.body.target_stage \in {"scheduled", "published"}
  /\ approveBody(None).target_stage = "scheduled"
  /\ approveBody("").target_stage = "scheduled"
  /\ approveBody("scheduled").target_stage = "scheduled"
  /\ approveBody("published").target_stage = "published"
  /\ ApproveButtons = {"scheduled", "published"}

C9_Witness ==
  \E r \in approveReq : r.body.target_stage = "published" /\ approving

\* C6: whenever the tab shows its list, every idea in it has the status of
\* the status filter and the watch topic of the watch-topic filter, for each
\* filter that is set
C6_DisplayedIdeasMatchFilters ==
  (~ideasLoading /\ ideasError = NoError) =>
    \A k \in 1..Len(ideas) :
      /\ statusFilter # "" => ideas[k].status = statusFilter
      /\ wtFilter # "" => ideas[k].watch_topic_id = wtFilter

Shows(id, status) == \E k \in 1..Len(ideas) : ideas[k].id = id /\ ideas[k].status = status

NewStatus(kind) == IF kind = "approve" THEN "converted" ELSE "dismissed"

\* C10: when two requests for distinct ideas were in flight together and both
\* succeeded, then once nothing is in flight (and the list was not reloaded)
\* the list shows both ideas with their new status
C10_NoLostStatusUpdate ==
  (ideaOps = {} /\ filterChanges = 0) =>
    \A n \in 1..Len(opLog) : \A m \in opLog[n].with :
      (/\ opLog[m].id # opLog[n].id
       /\ opLog[m].result = "ok"
       /\ opLog[n].result = "ok") =>
        /\ Shows(opLog[m].id, NewStatus(opLog[m].kind))
        /\ Shows(opLog[n].id, NewStatus(opLog[n].kind))

\* C8: onAuth is called, and makes the app authed, only in the step in which
\* the validation request carrying the submitted (trimmed, stored) token
\* settles with an OK response; a submission of a blank token sends nothing,
\* and it, a non-OK response and a failed connection leave the app unauthed
\* and show an error
C8_OnAuthOnlyAfterValidation ==
  [][/\ (onAuthCalls' # onAuthCalls) =>
          /\ authReq # NoReq
          /\ \E r \in authReq : validation'.auth = r.auth
          /\ validation'.auth = <<"Bearer ">> \o token
          /\ validation'.kind = "ok"
          /\ ~authed /\ authed'
     /\ (validation'.n # validation.n /\ validation'.kind # "ok") =>
          /\ onAuthCalls' = onAuthCalls
          /\ ~authed'
          /\ modalError' # <<>>
          /\ ~modalLoading'
     /\ (submits' # submits /\ Trim(modalToken) = <<>>) =>
          /\ authReq' = NoReq
          /\ onAuthCalls' = onAuthCalls
          /\ ~authed'
          /\ modalError' = <<"Please enter a token">>
     /\ (submits' # submits /\ Trim(modalToken) # <<>>) =>
          \E r \in authReq' : r.auth = <<"Bearer ">> \o Trim(modalToken)]_vars

C8_Witness ==
  /\ onAuthCalls = 1
  /\ submits = 2
  /\ validation.kind = "http"
  /\ ~authed
  /\ modalError # <<>>

\* C7: a call of apiFetch without a stored token sends nothing and throws
\* 'No auth token'; a request that is sent carries 'Bearer ' and the token
\* stored at the call; a non-OK response is thrown as 'API <status>: <body>',
\* only an OK response is returned as data
C7_ApiFetch ==
  [][/\ \A r \in apiReq' \ apiReq :
          /\ apiCalls' = apiCalls + 1
          /\ token # NoToken
          /\ r.auth = <<"Bearer ">> \o token
     /\ (apiCalls' # apiCalls /\ token = NoToken) =>
          /\ apiReq' = apiReq
          /\ apiResult'.threw
          /\ apiResult'.message = <<"No auth token">>
     /\ (apiCalls' # apiCalls /\ token # NoToken) =>
          \E r \in apiReq' : r.auth = <<"Bearer ">> \o token
     /\ (apiCalls' = apiCalls /\ apiReq' # apiReq) =>
          LET res == apiResult'.res IN
          /\ (res.kind = "http") =>
               /\ apiResult'.threw
               /\ apiResult'.message = <<"API ", res.status, ": ", res.text>>
          /\ ~apiResult'.threw => res.kind = "ok"]_vars

C7_Witness ==
  /\ token # NoToken
  /\ \E r \in apiReq : r.auth # <<"Bearer ">> \o token
  /\ apiResult.threw
  /\ apiResult.res.kind = "http"

\* C11: once every issued fetchContent request has settled successfully, the
\* list shown is the response to the request issued last, which asked for
\* the current site and stage filter; and loading is false only when no
\* request is in flight
C11_ListShowsLatestRequest ==
  /\ (listReqs = NoReq /\ \A n \in 1..listIssued : listResults[n] = "ok") =>
       /\ listContent.n = listIssued
       /\ listContent.params =
            fetchContentParams(selectedSite, listStageArg(page, stageFilter))
  /\ ~listLoading => listReqs = NoReq

\* C16: when the fetches ran one after the other and the one that settled
\* last succeeded, no error is shown and the list is that fetch's response
C16_ErrorClearedAfterSuccess ==
  (~listOverlap /\ listDone # 0 /\ listResults[listDone] = "ok") =>
    /\ listError = NoError
    /\ listContent.n = listDone

\* a createRevision request of handleSave is in flight
SaveInFlight == savePc = "creating" /\ saveReq # NoReq

\* C12: of the approve, reject and save requests of the review page at most
\* one is in flight at a time
C12_AtMostOneReviewRequest ==
  /\ ~(approveReq # NoReq /\ rejectReq # NoReq)
  /\ ~(approveReq # NoReq /\ SaveInFlight)
  /\ ~(rejectReq # NoReq /\ SaveInFlight)
  /\ Cardinality(approveReq) <= 1
  /\ Cardinality(rejectReq) <= 1

\* C13: no two approve or dismiss requests for the same idea are in flight
\* together
C13_OneRequestPerIdea ==
  \A o1 \in ideaOps : \A o2 \in ideaOps : (o1.id = o2.id) => (o1.n = o2.n)

ApproveSent == approveReq' # approveReq /\ approveReq' # NoReq
RejectSent == rejectReq' # rejectReq /\ rejectReq' # NoReq

\* C14: an approve or reject request is sent only while the stage of the
\* content the review page holds is 'review'
C14_RequestsOnlyInReview ==
  [][(ApproveSent \/ RejectSent) => contentStage = "review"]_vars

\* the validation request of the last submission settled without an OK
ValidationFailed ==
  ~authed /\ authReq = NoReq /\ validation.kind \in {"http", "neterr"}

\* C15: after a failed validation no token is in storage (none was there
\* before the submission: the modal is shown only when hasToken() is false
\* or the token has been cleared)
C15_RejectedTokenNotStored == ValidationFailed => ~hasToken(token)

====
